---- MODULE Spec2Model ----
(***************************************************************************)
(* Batch selection, batch-action menu, submission adapter, password        *)
(* strength meter, form validation and confirmation of sensitive actions   *)
(* of inventory/js/enhanced-validation.js (+ enhanced-validation-part2.js).*)
(* One page lifetime: the state after DOMContentLoaded, then one action    *)
(* per event handler.  Handlers run to completion (single-threaded DOM).   *)
(***************************************************************************)
EXTENDS Integers, Sequences, FiniteSets, TLC

(* ------------------------------ bounds --------------------------------- *)
NumTables == 2          \* tables matching '.table' on the page
MaxRows == 2            \* body rows on the page, over all its tables
NumContainers == 2      \* '.card-body .d-flex.flex-wrap.gap-2' containers
MaxOpens == 2           \* openings of parameter dialogs in one page lifetime
MaxCore == 4            \* characters of a typed password
MaxRepeat == 3          \* a pasted password is a typed one, up to MaxRepeat times over
NumFields == 1          \* required fields of the page form besides its password field

Tables == 1..NumTables
Containers == 1..NumContainers

(* data-id attribute of row r of table t when the row has one: row         *)
(* identifiers are unique on the page; "" is an absent or empty data-id     *)
RowKey(t, r) == ToString(10 * t + r)
(* value of the page's first [name=csrfmiddlewaretoken] input; NoToken is   *)
(* a page without such an input (querySelector returns null)               *)
NoToken == "<null>"
Tokens == {"tokA", "tokB"}
(* window.location.pathname *)
Paths == {"/product/", "/inventory/", "/inventory/product/", "/reports/"}
ListPaths == {"/product/", "/inventory/"}
(* action keys handed to handleBatchAction; "archive" is an unrecognised key *)
ActionKeys == {"exportSelected", "deleteSelected", "adjustPrice", "adjustStock"}
DispatchKeys == ActionKeys \cup {"archive"}

VARIABLES
    pathname,       \* window.location.pathname
    csrfToken,      \* value of the page's token input, or NoToken
    headRow,        \* headRow[t]: table t has a 'thead tr'
    rowIds,         \* rowIds[t]: data-id of each 'tbody tr' of table t, in order
    selectAll,      \* selectAll[t]: the injected header checkbox of table t
    selectRow,      \* selectRow[t][r]: checked state of the injected row checkbox
    batchActions,   \* batchActions[c]: injected dropdown (d-none flag, badge text)
    menu,           \* menu[c]: data-action of the entries of that dropdown, in order
    swal,           \* the modal SweetAlert confirmation, if one is open
    priceModal,     \* #adjustPriceModal: in the document, shown, was-validated
    priceListeners, \* click listeners on #confirmAdjustPrice, each with its ids
    stockModal,     \* #adjustStockModal
    stockListeners, \* click listeners on #confirmAdjustStock, each with its ids
    submitted,      \* forms on which form.submit() was called, in order
    page,           \* "loaded", or "unloading" once a submission navigates away
    dom,            \* dom[t]: what setupBatchSelection has injected into table t
    password,       \* value of the page's password field, a sequence of characters
    meter,          \* the '.password-strength-meter' injected after that field
    pageForm,       \* the page's form: required fields, password field, focus
    sensitive,      \* the confirmation raised by a click on a sensitive element
    requests,       \* submissions of the page form and navigations, in order
    last            \* the handler that ran last and what it did

vars == <<pathname, csrfToken, headRow, rowIds, selectAll, selectRow,
          batchActions, swal, priceModal, priceListeners, stockModal,
          stockListeners, submitted, page, menu, dom, password, meter,
          pageForm, sensitive, requests, last>>

(* ------------------------------ helpers -------------------------------- *)
RECURSIVE CountTrue(_)
CountTrue(bs) ==
    IF bs = <<>> THEN 0
    ELSE (IF Head(bs) THEN 1 ELSE 0) + CountTrue(Tail(bs))

(* table.querySelectorAll('.select-row:checked').length *)
CheckedInTable(sr, t) == CountTrue(sr[t])

(* document.querySelectorAll('.select-row:checked').length *)
RECURSIVE CheckedUpTo(_, _)
CheckedUpTo(sr, t) ==
    IF t = 0 THEN 0 ELSE CheckedUpTo(sr, t - 1) + CheckedInTable(sr, t)
CheckedInDocument(sr) == CheckedUpTo(sr, NumTables)

(* Array.from(selectedRows).map(cb => row.getAttribute('data-id') || '')    *)
(* restricted to one table: data-ids of its checked rows, in row order      *)
RECURSIVE MappedIdsOfTable(_, _)
MappedIdsOfTable(checks, ids) ==
    IF checks = <<>> THEN <<>>
    ELSE (IF Head(checks) THEN <<Head(ids)>> ELSE <<>>)
         \o MappedIdsOfTable(Tail(checks), Tail(ids))

(* the same over the document, tables in document order *)
RECURSIVE MappedIdsUpTo(_, _, _)
MappedIdsUpTo(sr, ids, t) ==
    IF t = 0 THEN <<>>
    ELSE MappedIdsUpTo(sr, ids, t - 1)
         \o (IF Len(sr[t]) = 0 THEN <<>> ELSE MappedIdsOfTable(sr[t], ids[t]))

(* variant: the ids are handed on without the filter *)
FilterNothing(s) == s

(* .filter(id => id): drops the empty strings *)
RECURSIVE FilterNonEmpty(_)
FilterNonEmpty(s) ==
    IF s = <<>> THEN <<>>
    ELSE (IF Head(s) # "" THEN <<Head(s)>> ELSE <<>>) \o FilterNonEmpty(Tail(s))

(* selectedIds of handleBatchAction *)
SelectedIds(sr, ids) == FilterNonEmpty(MappedIdsUpTo(sr, ids, NumTables))

RECURSIVE TotalRows(_, _)
TotalRows(lens, t) == IF t = 0 THEN 0 ELSE TotalRows(lens, t - 1) + lens[t]

(* the record kept in 'last' *)
NoEvent == [op |-> "load", t |-> 0, key |-> "", prev |-> 0,
            alerts |-> 0, created |-> 0, warned |-> FALSE, threw |-> FALSE,
            type |-> "", value |-> "", third |-> "", prevented |-> FALSE,
            confirmed |-> FALSE]
Event(op) == [NoEvent EXCEPT !.op = op]

(* --------------------------- page construction ------------------------- *)
(* setupBatchSelection for one table: a table with a header row gets one    *)
(* unchecked header checkbox and one unchecked checkbox per body row; a     *)
(* table without 'thead tr' is left alone                                   *)
SetupSelectAll(hasHead) ==
    [present |-> hasHead, checked |-> FALSE, indeterminate |-> FALSE]
SetupSelectRows(hasHead, ids) ==
    IF hasHead THEN [r \in 1..Len(ids) |-> FALSE] ELSE <<>>

(* variant: the controls are shown with the count but never hidden again *)
UpdateNeverHides(ba, sr) ==
    [c \in Containers |->
        IF CheckedInDocument(sr) > 0
        THEN [hidden |-> FALSE, count |-> CheckedInDocument(sr)]
        ELSE ba[c]]

(* variant: the controls are shown and hidden but the badge is not written *)
UpdateVisibilityOnly(ba, sr) ==
    [c \in Containers |->
        [ba[c] EXCEPT !.hidden = (CheckedInDocument(sr) = 0)]]

(* updateBatchActionButtons *)
UpdateBatchActionButtons(ba, sr) ==
    LET n == CheckedInDocument(sr) IN
    [c \in Containers |->
        IF n > 0 THEN [hidden |-> FALSE, count |-> n]
        ELSE [ba[c] EXCEPT !.hidden = TRUE]]

(* setupBatchActionButtons: every container gets a hidden dropdown whose    *)
(* badge reads 0, then updateBatchActionButtons() runs                      *)
SetupBatchActionButtons(sr) ==
    UpdateBatchActionButtons([c \in Containers |-> [hidden |-> TRUE, count |-> 0]], sr)

(* String.prototype.includes *)
Includes(s, sub) ==
    \E i \in 1..(Len(s) - Len(sub) + 1) : SubSeq(s, i, i + Len(sub) - 1) = sub

(* actions.splice(1, 0, item) *)
SpliceAtOne(actions, item) == <<Head(actions)>> \o <<item>> \o Tail(actions)

(* variant: the /inventory/ test comes first *)
BatchActionsMenuInventoryFirst(path) ==
    IF Includes(path, "/inventory/")
    THEN SpliceAtOne(<<"exportSelected", "deleteSelected">>, "adjustStock")
    ELSE IF Includes(path, "/product/")
    THEN SpliceAtOne(<<"exportSelected", "deleteSelected">>, "adjustPrice")
    ELSE <<"exportSelected", "deleteSelected">>

(* the entries setupBatchActionButtons puts into the dropdown menu *)
BatchActionsMenu(path) ==
    IF Includes(path, "/product/")
    THEN SpliceAtOne(<<"exportSelected", "deleteSelected">>, "adjustPrice")
    ELSE IF Includes(path, "/inventory/")
    THEN SpliceAtOne(<<"exportSelected", "deleteSelected">>, "adjustStock")
    ELSE <<"exportSelected", "deleteSelected">>

NoSwal == [open |-> FALSE, key |-> "", ids |-> <<>>]
NoModal == [exists |-> FALSE, shown |-> FALSE, validated |-> FALSE]

(* the row data-ids a page of at most MaxRows body rows can carry *)
RowIdChoices ==
    UNION {
      { [t \in Tables |->
            [r \in 1..lens[t] |-> IF <<t, r>> \in noId THEN "" ELSE RowKey(t, r)]] :
        noId \in SUBSET {p \in Tables \X (1..MaxRows) : p[2] <= lens[p[1]]} } :
      lens \in {l \in [Tables -> 0..MaxRows] : TotalRows(l, NumTables) <= MaxRows} }

(* a table of n body rows as the server rendered it: no selection column *)
RawTable(n) ==
    [columns |-> 0, headerBoxes |-> 0, headerListeners |-> 0,
     rowBoxes |-> [r \in 1..n |-> 0], rowListeners |-> [r \in 1..n |-> 0]]

(* table.querySelector('thead th.select-column') *)
HasCheckboxColumn(d) == d.columns > 0

(* variant: the step does not look for an existing selection column *)
AugmentTableUnguarded(d, hasHead) ==
    IF hasHead
    THEN [columns |-> d.columns + 1,
          headerBoxes |-> d.headerBoxes + 1,
          headerListeners |-> d.headerListeners + 1,
          rowBoxes |-> [r \in DOMAIN d.rowBoxes |-> d.rowBoxes[r] + 1],
          rowListeners |-> [r \in DOMAIN d.rowListeners |-> d.rowListeners[r] + 1]]
    ELSE d

(* the body of setupBatchSelection's loop for one table: unless the header  *)
(* already has a selection column, and only if 'thead tr' exists, insert    *)
(* one th with the select-all checkbox, one first cell with a checkbox in   *)
(* every body row, one change listener on the select-all checkbox and one   *)
(* on every '.select-row' of the table                                      *)
AugmentTable(d, hasHead) ==
    IF ~HasCheckboxColumn(d) /\ hasHead
    THEN [columns |-> d.columns + 1,
          headerBoxes |-> d.headerBoxes + 1,
          headerListeners |-> d.headerListeners + 1,
          rowBoxes |-> [r \in DOMAIN d.rowBoxes |-> d.rowBoxes[r] + 1],
          rowListeners |-> [r \in DOMAIN d.rowListeners |-> d.rowListeners[r] + 1]]
    ELSE d

(* the strength meter enhancePasswordFields creates: class d-none, bar at   *)
(* 0%, empty text                                                           *)
NoMeter == [hidden |-> TRUE, width |-> 0, text |-> ""]

(* no confirmation of a sensitive element is open *)
NoSensitive == [open |-> FALSE, el |-> ""]

(* a password field as the server rendered it (type="password", no          *)
(* validation class, no message after it), required or not; and its absence *)
PasswordField(required) ==
    [present |-> TRUE, required |-> required, type |-> "password",
     name |-> "password", invalid |-> FALSE, valid |-> FALSE, message |-> ""]
NoPasswordField == [PasswordField(FALSE) EXCEPT !.present = FALSE]

(* a page without a form of its own; a form holding just a password field *)
NoForm == [fields |-> <<>>, pw |-> NoPasswordField, focus |-> ""]
PasswordOnlyForm == [fields |-> <<>>, pw |-> PasswordField(FALSE), focus |-> ""]

(* the page once the DOMContentLoaded listener has run: setupBatchSelection *)
(* and setupBatchActionButtons have augmented the tables and containers,    *)
(* nothing is selected, no dialog exists, nothing was submitted             *)
Loaded ==
    /\ selectAll = [t \in Tables |-> SetupSelectAll(headRow[t])]
    /\ selectRow = [t \in Tables |-> SetupSelectRows(headRow[t], rowIds[t])]
    /\ batchActions = SetupBatchActionButtons(selectRow)
    /\ menu = [c \in Containers |-> BatchActionsMenu(pathname)]
    /\ swal = NoSwal
    /\ priceModal = NoModal
    /\ priceListeners = <<>>
    /\ stockModal = NoModal
    /\ stockListeners = <<>>
    /\ submitted = <<>>
    /\ page = "loaded"
    /\ dom = [t \in Tables |-> AugmentTable(RawTable(Len(rowIds[t])), headRow[t])]
    /\ meter = NoMeter
    /\ sensitive = NoSensitive
    /\ requests = <<>>
    /\ last = NoEvent

(* list pages: every table has a header row *)
Init ==
    /\ pathname \in ListPaths
    /\ csrfToken \in Tokens \cup {NoToken}
    /\ headRow = [t \in Tables |-> TRUE]
    /\ rowIds \in RowIdChoices
    /\ password = <<>>
    /\ pageForm = NoForm
    /\ Loaded

(* any page: tables with and without a header row, any path *)
InitSelection ==
    /\ pathname \in Paths
    /\ csrfToken \in Tokens \cup {NoToken}
    /\ headRow \in [Tables -> BOOLEAN]
    /\ rowIds \in RowIdChoices
    /\ password = <<>>
    /\ pageForm = NoForm
    /\ Loaded

(* the user can reach the page's controls: the page is alive and no modal   *)
(* dialog (SweetAlert confirmation, Bootstrap modal) covers it              *)
PageInteractive ==
    /\ page = "loaded"
    /\ ~swal.open
    /\ ~sensitive.open
    /\ ~priceModal.shown
    /\ ~stockModal.shown

(* --------------------------- selection tracker ------------------------- *)
(* variant: the first row of the table is left as it was *)
HeaderRowsAfterFirst(t, isChecked) ==
    [r \in 1..Len(selectRow[t]) |-> IF r = 1 THEN selectRow[t][r] ELSE isChecked]

(* 'change' on the header checkbox of table t.  The user's click flips      *)
(* checked and clears indeterminate before the listener runs; the listener  *)
(* copies the new value to every '.select-row' of the table and refreshes   *)
(* the batch-action controls                                                *)
HeaderRows(t, isChecked) == [r \in 1..Len(selectRow[t]) |-> isChecked]

(* variant: the listener queries the document instead of its table *)
RowsAfterHeaderOfDocument(sr, t, isChecked) ==
    [u \in Tables |-> [r \in 1..Len(sr[u]) |-> isChecked]]

(* table.querySelectorAll('.select-row').forEach(...): only the row         *)
(* checkboxes of the listener's own table are written                       *)
RowsAfterHeader(sr, t, isChecked) == [sr EXCEPT ![t] = HeaderRows(t, isChecked)]

SelectAllChange(t) ==
    /\ PageInteractive
    /\ selectAll[t].present
    /\ LET isChecked == ~selectAll[t].checked
           sr == RowsAfterHeader(selectRow, t, isChecked)
       IN /\ selectAll' = [selectAll EXCEPT ![t].checked = isChecked,
                                            ![t].indeterminate = FALSE]
          /\ selectRow' = sr
          /\ batchActions' = UpdateBatchActionButtons(batchActions, sr)
          /\ last' = [Event("selectAllChange") EXCEPT
                         !.t = t, !.prev = CheckedInTable(selectRow, t)]
    /\ UNCHANGED <<menu, dom, password, meter, pageForm, sensitive, requests>>
    /\ UNCHANGED <<pathname, csrfToken, headRow, rowIds, swal, priceModal,
                   priceListeners, stockModal, stockListeners, submitted, page>>

(* variant: indeterminate as soon as one row is checked *)
HeaderFromAnyRow(sa, sr, t) ==
    [sa EXCEPT !.checked = (Len(sr[t]) = CheckedInTable(sr, t)),
               !.indeterminate = (CheckedInTable(sr, t) > 0)]

(* header state computed by the row listener *)
HeaderFromRows(sa, sr, t) ==
    [sa EXCEPT !.checked = (Len(sr[t]) = CheckedInTable(sr, t)),
               !.indeterminate = (CheckedInTable(sr, t) > 0
                                  /\ CheckedInTable(sr, t) < Len(sr[t]))]

(* 'change' on the checkbox of row r of table t *)
SelectRowChange(t, r) ==
    /\ PageInteractive
    /\ r \in 1..Len(selectRow[t])
    /\ LET sr == [selectRow EXCEPT ![t][r] = ~selectRow[t][r]]
       IN /\ selectRow' = sr
          /\ batchActions' = UpdateBatchActionButtons(batchActions, sr)
          /\ selectAll' = [selectAll EXCEPT ![t] = HeaderFromRows(selectAll[t], sr, t)]
          /\ last' = [Event("selectRowChange") EXCEPT !.t = t]
    /\ UNCHANGED <<menu, dom, password, meter, pageForm, sensitive, requests>>
    /\ UNCHANGED <<pathname, csrfToken, headRow, rowIds, swal, priceModal,
                   priceListeners, stockModal, stockListeners, submitted, page>>

(* ------------------------- submission adapter -------------------------- *)
(* setupBatchSelection() called again on the loaded page *)
SetupBatchSelection ==
    /\ page = "loaded"
    /\ dom' = [t \in Tables |-> AugmentTable(dom[t], headRow[t])]
    /\ selectAll' = [t \in Tables |->
                        IF ~HasCheckboxColumn(dom[t]) /\ headRow[t]
                        THEN SetupSelectAll(TRUE) ELSE selectAll[t]]
    /\ selectRow' = [t \in Tables |->
                        IF ~HasCheckboxColumn(dom[t]) /\ headRow[t]
                        THEN SetupSelectRows(TRUE, rowIds[t]) ELSE selectRow[t]]
    /\ last' = Event("setupBatchSelection")
    /\ UNCHANGED <<menu, password, meter, pageForm, sensitive, requests>>
    /\ UNCHANGED <<pathname, csrfToken, headRow, rowIds, batchActions, swal,
                   priceModal, priceListeners, stockModal, stockListeners,
                   submitted, page>>

Field(name, value) == [name |-> name, value |-> value]

(* ids.forEach(id => append a hidden input 'selected_ids' = id) *)
RECURSIVE IdInputs(_)
IdInputs(ids) ==
    IF ids = <<>> THEN <<>>
    ELSE <<Field("selected_ids", Head(ids))>> \o IdInputs(Tail(ids))

(* variant: the token input is appended without its value *)
CsrfInputBlank(token) == <<Field("csrfmiddlewaretoken", "")>>

(* the token input, appended first to every synthesized form *)
CsrfInput(token) == <<Field("csrfmiddlewaretoken", token)>>

(* form.method = 'POST'; form.action = window.location.pathname + suffix *)
BuildForm(suffix, inputs) ==
    [method |-> "POST", action |-> pathname \o suffix, fields |-> inputs]

(* exportSelectedItems(ids), up to form.submit() *)
ExportForm(ids) ==
    BuildForm("export/", CsrfInput(csrfToken) \o IdInputs(ids))

(* deleteSelectedItems(ids) *)
DeleteForm(ids) ==
    BuildForm("batch-delete/", CsrfInput(csrfToken) \o IdInputs(ids))

(* submitPriceAdjustment(ids, type, value, field) *)
PriceForm(ids, type, value, field) ==
    BuildForm("batch-adjust-price/",
              CsrfInput(csrfToken)
              \o <<Field("adjustment_type", type), Field("adjustment_value", value),
                   Field("adjustment_field", field)>>
              \o IdInputs(ids))

(* submitStockAdjustment(ids, type, value, notes) *)
StockForm(ids, type, value, notes) ==
    BuildForm("batch-adjust-stock/",
              CsrfInput(csrfToken)
              \o <<Field("adjustment_type", type), Field("adjustment_value", value),
                   Field("adjustment_notes", notes)>>
              \o IdInputs(ids))

(* document.querySelector('[name=csrfmiddlewaretoken]').value throws a      *)
(* TypeError on a page without a token input: the form was created but is   *)
(* neither appended nor submitted                                           *)
TokenMissing == csrfToken = NoToken

(* document.body.appendChild(form); form.submit(): what one adapter call    *)
(* adds to the submissions; key is the action key whose dispatch led here   *)
Submit(key, form) ==
    IF TokenMissing THEN <<>> ELSE <<[key |-> key, form |-> form]>>

(* form.submit() starts the navigation that tears the page down *)
PageAfter(forms) == IF forms = <<>> THEN page ELSE "unloading"

(* variant: an unrecognised key falls through to the export case *)
BranchDefaultExport(key, ids) ==
    IF ids = <<>> THEN "return"
    ELSE CASE key = "deleteSelected" -> "delete"
           [] key = "adjustPrice" -> "price"
           [] key = "adjustStock" -> "stock"
           [] OTHER -> "export"

(* variant: no early return on an empty selection *)
BranchWithoutReturn(key, ids) ==
    CASE key = "exportSelected" -> "export"
      [] key = "deleteSelected" -> "delete"
      [] key = "adjustPrice" -> "price"
      [] key = "adjustStock" -> "stock"
      [] OTHER -> "default"

(* variant: the two adjustment cases call each other's dialog *)
BranchSwapped(key, ids) ==
    IF ids = <<>> THEN "return"
    ELSE CASE key = "exportSelected" -> "export"
           [] key = "deleteSelected" -> "delete"
           [] key = "adjustPrice" -> "stock"
           [] key = "adjustStock" -> "price"
           [] OTHER -> "default"

(* --------------------------- action dispatch --------------------------- *)
(* the path handleBatchAction takes: the early return on an empty           *)
(* selection, or the case of its switch                                     *)
Branch(key, ids) ==
    IF ids = <<>> THEN "return"
    ELSE CASE key = "exportSelected" -> "export"
           [] key = "deleteSelected" -> "delete"
           [] key = "adjustPrice" -> "price"
           [] key = "adjustStock" -> "stock"
           [] OTHER -> "default"

(* showAdjustPriceModal / showAdjustStockModal: insert the modal unless it  *)
(* is in the document already, then bsModal.show()                          *)
ModalShown(m) ==
    IF m.exists THEN [m EXCEPT !.shown = TRUE]
    ELSE [exists |-> TRUE, shown |-> TRUE, validated |-> FALSE]

(* ... and add one more click listener on the Confirm button, closing over  *)
(* the ids of this call                                                     *)
ListenerAdded(listeners, key, ids) == Append(listeners, [key |-> key, ids |-> ids])

(* confirmDeleteSelected(ids): Swal.fire(...) opens the confirmation *)
ConfirmDeleteSelected(key, ids) == [open |-> TRUE, key |-> key, ids |-> ids]

(* handleBatchAction(action) *)
HandleBatchAction(key) ==
    /\ PageInteractive
    /\ LET ids == SelectedIds(selectRow, rowIds)
           branch == Branch(key, ids)
           forms == IF branch = "export" THEN Submit(key, ExportForm(ids)) ELSE <<>>
       IN /\ branch \in {"price", "stock"}
                => Len(priceListeners) + Len(stockListeners) < MaxOpens
          /\ submitted' = submitted \o forms
          /\ page' = PageAfter(forms)
          /\ swal' = IF branch = "delete" THEN ConfirmDeleteSelected(key, ids) ELSE swal
          /\ priceModal' = IF branch = "price" THEN ModalShown(priceModal) ELSE priceModal
          /\ priceListeners' = IF branch = "price"
                               THEN ListenerAdded(priceListeners, key, ids)
                               ELSE priceListeners
          /\ stockModal' = IF branch = "stock" THEN ModalShown(stockModal) ELSE stockModal
          /\ stockListeners' = IF branch = "stock"
                               THEN ListenerAdded(stockListeners, key, ids)
                               ELSE stockListeners
          /\ last' = [Event("handleBatchAction") EXCEPT
                         !.key = key,
                         !.alerts = IF ids = <<>> THEN 1 ELSE 0,
                         !.created = IF branch = "export" THEN 1 ELSE 0,
                         !.threw = branch = "export" /\ TokenMissing,
                         !.warned = branch = "default"]
    /\ UNCHANGED <<menu, dom, password, meter, pageForm, sensitive, requests>>
    /\ UNCHANGED <<pathname, csrfToken, headRow, rowIds, selectAll, selectRow,
                   batchActions>>

(* variant: the callback submits whatever the dialog's result *)
DeleteOutcomeUnconfirmed(isConfirmed, key, ids) == Submit(key, DeleteForm(ids))

(* the .then callback of confirmDeleteSelected: the forms it submits *)
DeleteOutcome(isConfirmed, key, ids) ==
    IF isConfirmed THEN Submit(key, DeleteForm(ids)) ELSE <<>>

(* the confirmation is confirmed, or cancelled / dismissed *)
DeleteResolved(isConfirmed) ==
    /\ page = "loaded"
    /\ swal.open
    /\ LET forms == DeleteOutcome(isConfirmed, swal.key, swal.ids)
       IN /\ submitted' = submitted \o forms
          /\ page' = PageAfter(forms)
          /\ last' = [Event(IF isConfirmed THEN "deleteConfirmed" ELSE "deleteDismissed")
                         EXCEPT !.key = swal.key,
                                !.created = IF isConfirmed THEN 1 ELSE 0,
                                !.threw = isConfirmed /\ TokenMissing]
    /\ swal' = NoSwal
    /\ UNCHANGED <<menu, dom, password, meter, pageForm, sensitive, requests>>
    /\ UNCHANGED <<pathname, csrfToken, headRow, rowIds, selectAll, selectRow,
                   batchActions, priceModal, priceListeners, stockModal,
                   stockListeners>>

(* --------------------------- password fields --------------------------- *)
(* characters a password is made of, one UTF-16 code unit each: an ASCII    *)
(* lowercase letter, an ASCII uppercase letter, an ASCII digit, an ASCII    *)
(* punctuation mark, the lowercase letter e-acute (U+00E9) and the line     *)
(* separator U+2028                                                         *)
Chars == {"a", "B", "7", "!", "U+00E9", "U+2028"}
AsciiLower == {"a"}
AsciiUpper == {"B"}
AsciiDigit == {"7"}
AsciiLetter == AsciiLower \cup AsciiUpper
AsciiAlnum == AsciiLetter \cup AsciiDigit
(* [^a-zA-Z0-9]: a negated class matches every other code unit *)
NotAsciiAlnum == Chars \ AsciiAlnum
(* '.' matches any code unit except the line terminators LF, CR, U+2028 and *)
(* U+2029                                                                   *)
LineTerminators == {"U+2028"}

RECURSIVE Repeat(_, _)
Repeat(core, k) == IF k = 0 THEN <<>> ELSE core \o Repeat(core, k - 1)

(* values the field can hold *)
PasswordValues ==
    {Repeat(core, k) : core \in UNION {[1..n -> Chars] : n \in 0..MaxCore},
                       k \in 1..MaxRepeat}

(* /[X]/.test(password) *)
TestClass(pw, X) == \E i \in 1..Len(pw) : pw[i] \in X

(* /[X].*[Y]/.test(password) *)
TestThen(pw, X, Y) ==
    \E i \in 1..Len(pw), j \in 1..Len(pw) :
        /\ i < j
        /\ pw[i] \in X
        /\ pw[j] \in Y
        /\ \A k \in (i + 1)..(j - 1) : pw[k] \notin LineTerminators

(* /[X].*[Y]|[Y].*[X]/.test(password) *)
TestEitherOrder(pw, X, Y) == TestThen(pw, X, Y) \/ TestThen(pw, Y, X)

Points(cond, n) == IF cond THEN n ELSE 0
Min(a, b) == IF a < b THEN a ELSE b

(* checkPasswordStrength(password) *)
CheckPasswordStrength(pw) ==
    Min(Points(Len(pw) >= 8, 25)
        + Points(Len(pw) >= 12, 15)
        + Points(TestClass(pw, AsciiLower), 10)
        + Points(TestClass(pw, AsciiUpper), 10)
        + Points(TestClass(pw, AsciiDigit), 10)
        + Points(TestClass(pw, NotAsciiAlnum), 15)
        + Points(TestEitherOrder(pw, AsciiLower, AsciiUpper), 5)
        + Points(TestEitherOrder(pw, AsciiDigit, AsciiLetter), 5)
        + Points(TestEitherOrder(pw, NotAsciiAlnum, AsciiAlnum), 5),
        100)

(* updatePasswordStrengthIndicator: the text shown for a score *)
StrengthText(strength) ==
    IF strength < 30 THEN "Very Weak"
    ELSE IF strength < 60 THEN "Weak"
    ELSE IF strength < 80 THEN "Fair"
    ELSE "Strong"

(* variant: the listener shows the meter and never hides it again *)
MeterShownForGood(m, value) ==
    IF value # <<>>
    THEN [hidden |-> FALSE,
          width |-> CheckPasswordStrength(value),
          text |-> StrengthText(CheckPasswordStrength(value))]
    ELSE m

(* the 'input' listener of a password field *)
MeterAfterInput(m, value) ==
    IF value # <<>>
    THEN [hidden |-> FALSE,
          width |-> CheckPasswordStrength(value),
          text |-> StrengthText(CheckPasswordStrength(value))]
    ELSE [m EXCEPT !.hidden = TRUE]

(* the characters of Chars among !@#$%^&*(),.?":{}|<> *)
PolicySpecials == {"!"}
(* ... and in the class [A-Za-z\d!@#$%^&*(),.?":{}|<>] *)
PolicyChars == AsciiAlnum \cup PolicySpecials

(* the lookahead (?=.*[X]) at the start of the input *)
Lookahead(pw, X) ==
    \E i \in 1..Len(pw) :
        /\ pw[i] \in X
        /\ \A k \in 1..(i - 1) : pw[k] \notin LineTerminators

(* validatePassword(password) *)
ValidatePassword(pw) ==
    /\ Lookahead(pw, AsciiLower)
    /\ Lookahead(pw, AsciiUpper)
    /\ Lookahead(pw, AsciiDigit)
    /\ Lookahead(pw, PolicySpecials)
    /\ Len(pw) >= 8
    /\ \A i \in 1..Len(pw) : pw[i] \in PolicyChars

(* what one edit can turn the field's value into: a password pasted into    *)
(* the empty field; or, the field cleared, a character typed after a short  *)
(* value, the last character of a short value deleted                       *)
EditsOf(value) ==
    IF value = <<>> THEN PasswordValues \ {<<>>}
    ELSE {<<>>}
         \cup (IF Len(value) < MaxCore
               THEN {Append(value, c) : c \in Chars} ELSE {})
         \cup (IF Len(value) <= MaxCore
               THEN {SubSeq(value, 1, Len(value) - 1)} ELSE {})

(* an edit of the password field fires 'input' with the new value *)
PasswordInput(value) ==
    /\ PageInteractive
    /\ pageForm.pw.present
    /\ value # password
    /\ password' = value
    /\ meter' = MeterAfterInput(meter, value)
    /\ last' = Event("passwordInput")
    /\ UNCHANGED <<menu, dom, pageForm, sensitive, requests>>
    /\ UNCHANGED <<pathname, csrfToken, headRow, rowIds, selectAll, selectRow,
                   batchActions, swal, priceModal, priceListeners, stockModal,
                   stockListeners, submitted, page>>

(* ------------------------- parameter dialogs --------------------------- *)
(* option values the user picks in #adjustmentType and #adjustField, and    *)
(* the values typed into #adjustmentValue (type=number, step 0.01, required) *)
PriceTypes == {"percentage", "fixed"}
PriceValues == {"", "10"}
PriceFields == {"price", "cost"}

(* option values of #stockAdjustmentType (the first option is the empty     *)
(* placeholder), values typed into #stockAdjustmentValue (type=number,      *)
(* min 0, step 1, required) and into #stockAdjustmentNotes (required)       *)
StockTypes == {"", "add", "set"}
StockValues == {"", "10", "-5"}
StockNotes == {"", "recount"}

(* adjustPriceForm.checkValidity() *)
PriceFormValid(type, value, field) == type # "" /\ value # "" /\ field # ""

(* variant: the min="0" constraint of the quantity is not checked *)
StockFormValidNoMin(type, value, notes) == type # "" /\ value # "" /\ notes # ""

(* adjustStockForm.checkValidity() *)
StockFormValid(type, value, notes) ==
    type # "" /\ value # "" /\ value # "-5" /\ notes # ""

(* the forms submitted by the click listeners of one Confirm click, in the  *)
(* order the listeners were added; each listener submits for its own ids    *)
RECURSIVE PriceSubmissions(_, _, _, _)
PriceSubmissions(listeners, type, value, field) ==
    IF listeners = <<>> THEN <<>>
    ELSE Submit(Head(listeners).key, PriceForm(Head(listeners).ids, type, value, field))
         \o PriceSubmissions(Tail(listeners), type, value, field)

RECURSIVE StockSubmissions(_, _, _, _)
StockSubmissions(listeners, type, value, notes) ==
    IF listeners = <<>> THEN <<>>
    ELSE Submit(Head(listeners).key, StockForm(Head(listeners).ids, type, value, notes))
         \o StockSubmissions(Tail(listeners), type, value, notes)

(* the modal after the listeners of a Confirm click ran: bsModal.hide()     *)
(* follows the adapter call, so it is reached only if the call returned;    *)
(* invalid input marks the form was-validated instead                       *)
ModalAfterConfirm(m, valid) ==
    [m EXCEPT !.shown = IF valid /\ ~TokenMissing THEN FALSE ELSE @,
              !.validated = IF valid THEN @ ELSE TRUE]

(* click on #confirmAdjustPrice; (type, value, field) are the values the    *)
(* user has left in the dialog's three controls, read by the listeners      *)
ConfirmAdjustPriceClick(type, value, field) ==
    /\ page = "loaded"
    /\ priceModal.shown
    /\ LET valid == PriceFormValid(type, value, field)
           forms == IF valid
                    THEN PriceSubmissions(priceListeners, type, value, field)
                    ELSE <<>>
       IN /\ submitted' = submitted \o forms
          /\ page' = PageAfter(forms)
          /\ priceModal' = ModalAfterConfirm(priceModal, valid)
          /\ last' = [Event("confirmAdjustPrice") EXCEPT
                         !.key = "adjustPrice",
                         !.type = type,
                         !.value = value,
                         !.third = field,
                         !.created = IF valid THEN Len(priceListeners) ELSE 0,
                         !.threw = valid /\ TokenMissing]
    /\ UNCHANGED <<menu, dom, password, meter, pageForm, sensitive, requests>>
    /\ UNCHANGED <<pathname, csrfToken, headRow, rowIds, selectAll, selectRow,
                   batchActions, swal, priceListeners, stockModal, stockListeners>>

(* click on #confirmAdjustStock while the dialog holds (type, value, notes) *)
ConfirmAdjustStockClick(type, value, notes) ==
    /\ page = "loaded"
    /\ stockModal.shown
    /\ LET valid == StockFormValid(type, value, notes)
           forms == IF valid
                    THEN StockSubmissions(stockListeners, type, value, notes)
                    ELSE <<>>
       IN /\ submitted' = submitted \o forms
          /\ page' = PageAfter(forms)
          /\ stockModal' = ModalAfterConfirm(stockModal, valid)
          /\ last' = [Event("confirmAdjustStock") EXCEPT
                         !.key = "adjustStock",
                         !.type = type,
                         !.value = value,
                         !.third = notes,
                         !.created = IF valid THEN Len(stockListeners) ELSE 0,
                         !.threw = valid /\ TokenMissing]
    /\ UNCHANGED <<menu, dom, password, meter, pageForm, sensitive, requests>>
    /\ UNCHANGED <<pathname, csrfToken, headRow, rowIds, selectAll, selectRow,
                   batchActions, swal, priceModal, priceListeners, stockListeners>>

(* Cancel / close button (data-bs-dismiss="modal") of a parameter dialog *)
DismissPriceModal ==
    /\ page = "loaded"
    /\ priceModal.shown
    /\ priceModal' = [priceModal EXCEPT !.shown = FALSE]
    /\ last' = [Event("dismissPriceModal") EXCEPT !.key = "adjustPrice"]
    /\ UNCHANGED <<menu, dom, password, meter, pageForm, sensitive, requests>>
    /\ UNCHANGED <<pathname, csrfToken, headRow, rowIds, selectAll, selectRow,
                   batchActions, swal, priceListeners, stockModal, stockListeners,
                   submitted, page>>

DismissStockModal ==
    /\ page = "loaded"
    /\ stockModal.shown
    /\ stockModal' = [stockModal EXCEPT !.shown = FALSE]
    /\ last' = [Event("dismissStockModal") EXCEPT !.key = "adjustStock"]
    /\ UNCHANGED <<menu, dom, password, meter, pageForm, sensitive, requests>>
    /\ UNCHANGED <<pathname, csrfToken, headRow, rowIds, selectAll, selectRow,
                   batchActions, swal, priceModal, priceListeners, stockListeners,
                   submitted, page>>

(* --------------------------- form validation --------------------------- *)
(* values are sequences of characters, as passwords are                    *)
Whitespace == {" "}
Digits == {"0", "1", "2", "3", "4", "5", "6", "7", "8", "9"}
Letters == {"a", "b", "c", "x", "A", "B"}

(* the kinds of required field validateField tells apart: by type (email,  *)
(* tel), by name (barcode), and any other field                             *)
FieldKinds ==
    {[type |-> "text", name |-> "name"],
     [type |-> "email", name |-> "email"],
     [type |-> "tel", name |-> "phone"],
     [type |-> "text", name |-> "barcode"]}

(* what the user may leave in a field of that kind: nothing, a value its    *)
(* pattern rejects, a value it accepts                                      *)
ValuesOf(kind) ==
    IF kind.type = "email"
    THEN {<<>>, <<"a", "@", "b">>, <<"a", "@", "b", ".", "c">>}
    ELSE IF kind.type = "tel"
    THEN {<<>>, <<"1", "2", "3", "4", "5">>,
          <<"1", "3", "8", "0", "0", "1", "3", "8", "0", "0", "0">>}
    ELSE IF kind.name = "barcode"
    THEN {<<>>, <<"A", "B", " ", "1">>, <<"A", "B", "-", "1">>}
    ELSE {<<>>, <<"x">>}

(* a required field as the server rendered it *)
RequiredField(kind, value) ==
    [type |-> kind.type, name |-> kind.name, value |-> value,
     invalid |-> FALSE, valid |-> FALSE, message |-> ""]

(* [^\s@]+ matches value[a..b] *)
LocalPart(value, a, b) ==
    /\ a <= b
    /\ \A k \in a..b : value[k] \notin Whitespace \cup {"@"}

(* /^[^\s@]+@[^\s@]+\.[^\s@]+$/.test(value) *)
EmailTest(value) ==
    \E i \in 1..Len(value), j \in 1..Len(value) :
        /\ value[i] = "@"
        /\ value[j] = "."
        /\ LocalPart(value, 1, i - 1)
        /\ LocalPart(value, i + 1, j - 1)
        /\ LocalPart(value, j + 1, Len(value))

(* /^1[3-9]\d{9}$/.test(value) *)
PhoneTest(value) ==
    /\ Len(value) = 11
    /\ value[1] = "1"
    /\ value[2] \in Digits \ {"0", "1", "2"}
    /\ \A k \in 3..11 : value[k] \in Digits

(* /^[A-Za-z0-9\-]{4,}$/.test(value) *)
BarcodeTest(value) ==
    /\ Len(value) >= 4
    /\ \A k \in 1..Len(value) : value[k] \in Letters \cup Digits \cup {"-"}

(* field.checkValidity() of a required field without other constraints *)
CheckValidity(value) == value # <<>>

(* the branch validateField takes for a field holding value: whether a      *)
(* pattern applies, its verdict and its message                             *)
PatternOf(field, value) ==
    IF field.type = "email" /\ value # <<>>
    THEN [applies |-> TRUE, ok |-> EmailTest(value),
          message |-> "Please enter a valid email address"]
    ELSE IF field.type = "tel" /\ value # <<>>
    THEN [applies |-> TRUE, ok |-> PhoneTest(value),
          message |-> "Please enter a valid phone number"]
    ELSE IF field.name = "barcode" /\ value # <<>>
    THEN [applies |-> TRUE, ok |-> BarcodeTest(value),
          message |-> "Barcode format is incorrect, please check"]
    ELSE [applies |-> FALSE, ok |-> TRUE, message |-> ""]

(* validateField(field, showError): the value it returns *)
FieldIsValid(field, value) ==
    IF PatternOf(field, value).applies
    THEN PatternOf(field, value).ok
    ELSE CheckValidity(value)

(* showValidationError(field, message): an '.invalid-feedback' right after  *)
(* the field is replaced, else the message is inserted right after it       *)
ShowValidationError(field, message) == [field EXCEPT !.message = message]

(* validateField(field, showError): the field it leaves behind *)
ValidateField(field, value, showError) ==
    LET pattern == PatternOf(field, value)
        shown == IF pattern.applies /\ ~pattern.ok /\ showError
                 THEN ShowValidationError(field, pattern.message)
                 ELSE field
    IN IF ~showError THEN shown
       ELSE IF FieldIsValid(field, value)
       THEN [shown EXCEPT !.invalid = FALSE, !.valid = TRUE, !.message = ""]
       ELSE IF ~shown.invalid
       THEN [shown EXCEPT !.invalid = TRUE,
                          !.valid = FALSE,
                          !.message = IF @ = "" THEN "This field is required"
                                      ELSE @]
       ELSE shown

(* the submit listener's loop over form.querySelectorAll('[required]'):     *)
(* whether every required field validated, and the fields afterwards        *)
RequiredAllValid(form, pwValue) ==
    /\ \A i \in 1..Len(form.fields) :
           FieldIsValid(form.fields[i], form.fields[i].value)
    /\ form.pw.present /\ form.pw.required => FieldIsValid(form.pw, pwValue)

FieldsValidated(fields) ==
    [i \in 1..Len(fields) |-> ValidateField(fields[i], fields[i].value, TRUE)]

(* form.querySelector('input[type="password"]') finds the field, it has a   *)
(* value and validatePassword rejects it                                    *)
PolicyViolated(pw, pwValue) ==
    /\ pw.present
    /\ pw.type = "password"
    /\ pwValue # <<>>
    /\ ~ValidatePassword(pwValue)

PasswordValidated(pw, pwValue) ==
    LET looped == IF pw.present /\ pw.required
                  THEN ValidateField(pw, pwValue, TRUE) ELSE pw
    IN IF PolicyViolated(pw, pwValue)
       THEN ShowValidationError(looped,
                "Password must contain at least 8 characters")
       ELSE looped

(* form.querySelector('.is-invalid'): the first such field in document      *)
(* order (the password field comes last), "" if there is none               *)
FirstInvalidField(fields, pw) ==
    IF \E i \in 1..Len(fields) : fields[i].invalid
    THEN fields[CHOOSE i \in 1..Len(fields) :
                    /\ fields[i].invalid
                    /\ \A k \in 1..(i - 1) : ~fields[k].invalid].name
    ELSE IF pw.present /\ pw.invalid THEN pw.name
    ELSE ""

(* the page form's action attribute, and a request it or a link causes *)
FormAction == "/item/edit/"
Request(kind, via, target) == [kind |-> kind, via |-> via, target |-> target]

(* the form's 'submit' event: the user pressed Enter in a field or clicked  *)
(* a submit button that is not a sensitive element; unless the listener     *)
(* calls preventDefault the browser submits the form to its action          *)
NativeSubmit ==
    /\ PageInteractive
    /\ pageForm # NoForm
    /\ LET isValid == /\ RequiredAllValid(pageForm, password)
                      /\ ~PolicyViolated(pageForm.pw, password)
           fields == FieldsValidated(pageForm.fields)
           pw == PasswordValidated(pageForm.pw, password)
           first == FirstInvalidField(fields, pw)
       IN /\ pageForm' = [pageForm EXCEPT
                             !.fields = fields,
                             !.pw = pw,
                             !.focus = IF ~isValid /\ first # "" THEN first ELSE @]
          /\ requests' = IF isValid
                         THEN Append(requests, Request("submit", "event", FormAction))
                         ELSE requests
          /\ page' = IF isValid THEN "unloading" ELSE page
          /\ last' = [Event("submit") EXCEPT !.prevented = ~isValid]
    /\ UNCHANGED <<menu, dom, password, meter, sensitive>>
    /\ UNCHANGED <<pathname, csrfToken, headRow, rowIds, selectAll, selectRow,
                   batchActions, swal, priceModal, priceListeners, stockModal,
                   stockListeners, submitted>>

(* an edit of required field i fires 'input': validateField(this) without   *)
(* showError changes nothing but the value is new                           *)
FieldInput(i, value) ==
    /\ PageInteractive
    /\ i \in 1..Len(pageForm.fields)
    /\ value \in ValuesOf(pageForm.fields[i]) \ {pageForm.fields[i].value}
    /\ pageForm' = [pageForm EXCEPT
                       !.fields[i] = ValidateField([@ EXCEPT !.value = value],
                                                   value, FALSE)]
    /\ last' = [Event("fieldInput") EXCEPT !.t = i]
    /\ UNCHANGED <<menu, dom, password, meter, sensitive, requests>>
    /\ UNCHANGED <<pathname, csrfToken, headRow, rowIds, selectAll, selectRow,
                   batchActions, swal, priceModal, priceListeners, stockModal,
                   stockListeners, submitted, page>>

(* required field i loses focus: validateField(this, true) *)
FieldBlur(i) ==
    /\ PageInteractive
    /\ i \in 1..Len(pageForm.fields)
    /\ pageForm' = [pageForm EXCEPT
                       !.fields[i] = ValidateField(@, @.value, TRUE)]
    /\ last' = [Event("fieldBlur") EXCEPT !.t = i]
    /\ UNCHANGED <<menu, dom, password, meter, sensitive, requests>>
    /\ UNCHANGED <<pathname, csrfToken, headRow, rowIds, selectAll, selectRow,
                   batchActions, swal, priceModal, priceListeners, stockModal,
                   stockListeners, submitted, page>>

(* the toggle button's listener: the type the field gets *)
ToggledType(type) == IF type = "password" THEN "text" ELSE "password"

(* click on the '.password-toggle' button next to the password field *)
PasswordToggleClick ==
    /\ PageInteractive
    /\ pageForm.pw.present
    /\ pageForm' = [pageForm EXCEPT !.pw.type = ToggledType(@)]
    /\ last' = Event("passwordToggle")
    /\ UNCHANGED <<menu, dom, password, meter, sensitive, requests>>
    /\ UNCHANGED <<pathname, csrfToken, headRow, rowIds, selectAll, selectRow,
                   batchActions, swal, priceModal, priceListeners, stockModal,
                   stockListeners, submitted, page>>

(* ---------------------------- sensitive actions ------------------------ *)
(* elements of the page form matched by sensitiveActionSelectors: a submit  *)
(* button with a formaction, a submit button of class btn-danger without    *)
(* one, a link, and a type="button" button of class sensitive-action        *)
SensitiveElements ==
    {[id |-> "deleteButton", tagName |-> "BUTTON", type |-> "submit",
      formaction |-> "/item/delete/", href |-> ""],
     [id |-> "dangerButton", tagName |-> "BUTTON", type |-> "submit",
      formaction |-> "", href |-> ""],
     [id |-> "resetLink", tagName |-> "A", type |-> "",
      formaction |-> "", href |-> "/item/reset/"],
     [id |-> "plainButton", tagName |-> "BUTTON", type |-> "button",
      formaction |-> "", href |-> ""]}

Element(id) == CHOOSE el \in SensitiveElements : el.id = id

(* the click listener up to Swal.fire: whether it called preventDefault *)
ClickPrevented(el) == el.type = "submit" \/ el.tagName = "A"

(* the .then callback of the click listener: the requests it causes *)
ConfirmedOutcome(isConfirmed, el) ==
    IF ~isConfirmed THEN <<>>
    ELSE IF el.type = "submit"
    THEN <<Request("submit", "form.submit", FormAction)>>
    ELSE IF el.tagName = "A"
    THEN <<Request("navigate", "location.href", el.href)>>
    ELSE <<>>

(* click on a sensitive element: the default action is prevented for a      *)
(* submit button and a link, and the confirmation opens                     *)
SensitiveClick(id) ==
    /\ PageInteractive
    /\ pageForm # NoForm
    /\ sensitive' = [open |-> TRUE, el |-> id]
    /\ last' = [Event("sensitiveClick") EXCEPT
                   !.key = id,
                   !.prevented = ClickPrevented(Element(id))]
    /\ UNCHANGED <<menu, dom, password, meter, pageForm, requests>>
    /\ UNCHANGED <<pathname, csrfToken, headRow, rowIds, selectAll, selectRow,
                   batchActions, swal, priceModal, priceListeners, stockModal,
                   stockListeners, submitted, page>>

(* the confirmation is confirmed, or cancelled / dismissed *)
SensitiveResolved(isConfirmed) ==
    /\ page = "loaded"
    /\ sensitive.open
    /\ LET outcome == ConfirmedOutcome(isConfirmed, Element(sensitive.el))
       IN /\ requests' = requests \o outcome
          /\ page' = IF outcome = <<>> THEN page ELSE "unloading"
          /\ sensitive' = [sensitive EXCEPT !.open = FALSE]
          /\ last' = [Event("sensitiveResolved") EXCEPT
                         !.key = sensitive.el,
                         !.confirmed = isConfirmed]
    /\ UNCHANGED <<menu, dom, password, meter, pageForm>>
    /\ UNCHANGED <<pathname, csrfToken, headRow, rowIds, selectAll, selectRow,
                   batchActions, swal, priceModal, priceListeners, stockModal,
                   stockListeners, submitted>>

(* --------------------------- specifications ---------------------------- *)
Next ==
    \/ \E t \in Tables : SelectAllChange(t)
    \/ \E t \in Tables, r \in 1..MaxRows : SelectRowChange(t, r)
    \/ \E key \in DispatchKeys : HandleBatchAction(key)
    \/ \E isConfirmed \in BOOLEAN : DeleteResolved(isConfirmed)
    \/ \E type \in PriceTypes, value \in PriceValues, field \in PriceFields :
            ConfirmAdjustPriceClick(type, value, field)
    \/ \E type \in StockTypes, value \in StockValues, notes \in StockNotes :
            ConfirmAdjustStockClick(type, value, notes)
    \/ DismissPriceModal
    \/ DismissStockModal

Spec == Init /\ [][Next]_vars

(* the selection tracker alone, on any page *)
NextSelection ==
    \/ \E t \in Tables : SelectAllChange(t)
    \/ \E t \in Tables, r \in 1..MaxRows : SelectRowChange(t, r)

SpecSelection == InitSelection /\ [][NextSelection]_vars

(* the selection tracker with its augmentation step run again at any time *)
NextSetup ==
    \/ SetupBatchSelection
    \/ \E t \in Tables : SelectAllChange(t)
    \/ \E t \in Tables, r \in 1..MaxRows : SelectRowChange(t, r)

SpecSetup == InitSelection /\ [][NextSetup]_vars

(* a page with a password field and no list table; the field is rendered   *)
(* empty or with a value already in it                                      *)
InitPassword ==
    /\ pathname = "/reports/"
    /\ csrfToken = "tokA"
    /\ headRow = [t \in Tables |-> FALSE]
    /\ rowIds = [t \in Tables |-> <<>>]
    /\ password \in {<<>>, Repeat(<<"a", "B", "7", "!">>, 2)}
    /\ pageForm = PasswordOnlyForm
    /\ Loaded

NextPassword == \E value \in EditsOf(password) : PasswordInput(value)

SpecPassword == InitPassword /\ [][NextPassword]_vars

(* passwords tried in the page form: too short, conforming to the policy,   *)
(* and long enough but with a character the policy does not admit           *)
FormPasswords ==
    {<<>>,
     <<"a", "B", "7", "!">>,
     Repeat(<<"a", "B", "7", "!">>, 2),
     Repeat(<<"a", "B", "7", "U+00E9">>, 2)}

(* the forms a page can carry: NumFields required fields, each of some      *)
(* kind and rendered empty, and a password field or none                    *)
PageForms ==
    {[fields |-> [i \in 1..NumFields |-> RequiredField(kinds[i], <<>>)],
      pw |-> pw, focus |-> ""] :
        kinds \in [1..NumFields -> FieldKinds],
        pw \in {NoPasswordField, PasswordField(FALSE), PasswordField(TRUE)}}

(* a page with a form, sensitive elements and no list table *)
InitForm ==
    /\ pathname = "/reports/"
    /\ csrfToken = "tokA"
    /\ headRow = [t \in Tables |-> FALSE]
    /\ rowIds = [t \in Tables |-> <<>>]
    /\ password = <<>>
    /\ pageForm \in PageForms
    /\ Loaded

NextForm ==
    \/ NativeSubmit
    \/ \E i \in 1..NumFields, value \in UNION {ValuesOf(k) : k \in FieldKinds} :
            FieldInput(i, value)
    \/ \E i \in 1..NumFields : FieldBlur(i)
    \/ \E value \in FormPasswords : PasswordInput(value)
    \/ PasswordToggleClick
    \/ \E id \in {el.id : el \in SensitiveElements} : SensitiveClick(id)
    \/ \E isConfirmed \in BOOLEAN : SensitiveResolved(isConfirmed)

SpecForm == InitForm /\ [][NextForm]_vars

(* ------------------------------ properties ----------------------------- *)
(* the checked row checkboxes of table t, and the number of its body rows *)
CheckedRowsOf(t) == {r \in 1..Len(selectRow[t]) : selectRow[t][r]}
RowsOf(t) == Len(rowIds[t])

(* the checked row checkboxes of the whole page *)
CheckedOnPage ==
    {p \in Tables \X (1..MaxRows) : p[2] \in CheckedRowsOf(p[1])}

(* C1: in every reachable state (the initial one included, tables of any    *)
(* size N >= 0) the select-all checkbox of each table has                   *)
(* checked = (checkedRowCount = N) and indeterminate = (0 < checkedRowCount *)
(* < N).                                                                    *)
C1_SelectAllFollowsCounts ==
    \A t \in Tables :
        selectAll[t].present =>
            /\ selectAll[t].checked = (Cardinality(CheckedRowsOf(t)) = RowsOf(t))
            /\ selectAll[t].indeterminate =
                   (0 < Cardinality(CheckedRowsOf(t))
                    /\ Cardinality(CheckedRowsOf(t)) < RowsOf(t))

(* C2: after a header-checkbox toggle every row checkbox of that table      *)
(* carries the header's new checked value, whatever the rows held before.   *)
C2_HeaderToggleSetsAllRows ==
    last.op = "selectAllChange" =>
        /\ Len(selectRow[last.t]) = RowsOf(last.t)
        /\ \A r \in 1..RowsOf(last.t) :
               selectRow[last.t][r] = selectAll[last.t].checked

(* a header toggle that checked a two-row table of which one row was checked *)
C2_Witness ==
    /\ last.op = "selectAllChange"
    /\ RowsOf(last.t) = 2
    /\ last.prev = 1
    /\ selectAll[last.t].checked

(* C3 as stated: after a header toggle on a table of N rows the badge reads *)
(* N if the header became checked and 0 if it became unchecked.             *)
C3_BadgeIsNOrZero ==
    last.op = "selectAllChange" =>
        \A c \in Containers :
            batchActions[c].count =
                IF selectAll[last.t].checked THEN RowsOf(last.t) ELSE 0

(* C3 amended: after a header toggle, every batch-action control is visible *)
(* with a badge reading the number of checked rows of the whole page (this  *)
(* table's N or 0 plus the checked rows of the other tables) when that      *)
(* number is positive, and is hidden when it is 0; a hidden control keeps   *)
(* the badge text it had.                                                   *)
C3_BadgeCountsPage ==
    /\ [](last.op = "selectAllChange" =>
            \A c \in Containers :
                /\ batchActions[c].hidden = (Cardinality(CheckedOnPage) = 0)
                /\ ~batchActions[c].hidden =>
                       batchActions[c].count = Cardinality(CheckedOnPage))
    /\ [][\A c \in Containers :
              batchActions'[c].hidden => batchActions'[c].count = batchActions[c].count]_vars

(* a header toggle that unchecked a table while a row of another table      *)
(* stays checked                                                            *)
C3_Witness ==
    /\ last.op = "selectAllChange"
    /\ ~selectAll[last.t].checked
    /\ RowsOf(last.t) > 0
    /\ Cardinality(CheckedOnPage) > 0
    /\ \A c \in Containers : batchActions[c].count = Cardinality(CheckedOnPage)

(* C4: right after the handler of a row-checkbox toggle, the table's header *)
(* has checked = (checkedCount = totalCount) and indeterminate = (0 <       *)
(* checkedCount < totalCount), and the batch-action controls show the new   *)
(* selection.                                                               *)
C4_RowToggleUpdatesHeader ==
    last.op = "selectRowChange" =>
        /\ selectAll[last.t].checked =
               (Cardinality(CheckedRowsOf(last.t)) = RowsOf(last.t))
        /\ selectAll[last.t].indeterminate =
               (0 < Cardinality(CheckedRowsOf(last.t))
                /\ Cardinality(CheckedRowsOf(last.t)) < RowsOf(last.t))
        /\ \A c \in Containers :
               /\ batchActions[c].hidden = (Cardinality(CheckedOnPage) = 0)
               /\ ~batchActions[c].hidden =>
                      batchActions[c].count = Cardinality(CheckedOnPage)

(* a row toggle that left its two-row table half checked *)
C4_Witness ==
    /\ last.op = "selectRowChange"
    /\ RowsOf(last.t) = 2
    /\ selectAll[last.t].indeterminate
    /\ ~selectAll[last.t].checked
(* the positions of the fields of a form that carry a given name *)
FieldsNamed(form, name) ==
    {j \in 1..Len(form.fields) : form.fields[j].name = name}

(* the body rows of the page, and those that carry a data-id *)
RowsOnPage == {p \in Tables \X (1..MaxRows) : p[2] <= RowsOf(p[1])}
IdOf(p) == rowIds[p[1]][p[2]]

(* one selected_ids field per checked row that has a data-id, carrying that *)
(* id, and no other selected_ids field                                      *)
CarriesCheckedIds(form) ==
    /\ \A j \in FieldsNamed(form, "selected_ids") :
           \E p \in CheckedOnPage : IdOf(p) # "" /\ form.fields[j].value = IdOf(p)
    /\ \A p \in RowsOnPage :
           IdOf(p) # "" =>
               Cardinality({j \in FieldsNamed(form, "selected_ids") :
                               form.fields[j].value = IdOf(p)})
                 = IF p \in CheckedOnPage THEN 1 ELSE 0

(* C5: a dispatch of one of the four batch actions while no row is selected *)
(* builds and submits no form and opens no dialog; it shows exactly one     *)
(* warning notification.                                                    *)
C5_EmptySelectionOnlyWarns ==
    (last.op = "handleBatchAction" /\ last.key \in ActionKeys /\ CheckedOnPage = {}) =>
        /\ last.alerts = 1
        /\ last.created = 0
        /\ submitted = <<>>
        /\ page = "loaded"
        /\ ~swal.open
        /\ ~priceModal.shown
        /\ ~stockModal.shown

(* adjustStock dispatched on a page that has rows, none of them checked *)
C5_Witness ==
    /\ last.op = "handleBatchAction"
    /\ last.key = "adjustStock"
    /\ CheckedOnPage = {}
    /\ RowsOnPage # {}
    /\ last.alerts = 1

(* C6: the form submitted by exportSelected, or by a confirmed              *)
(* deleteSelected, has exactly one selected_ids field per checked row with  *)
(* a non-empty data-id, carrying that id, and no other selected_ids field.  *)
C6_SubmittedIdsAreCheckedIds ==
    \A i \in 1..Len(submitted) :
        submitted[i].key \in {"exportSelected", "deleteSelected"} =>
            CarriesCheckedIds(submitted[i].form)

(* a confirmed delete with one checked row that has a data-id and one       *)
(* checked row that has none                                                *)
C6_Witness ==
    /\ last.op = "deleteConfirmed"
    /\ submitted # <<>>
    /\ Cardinality(FieldsNamed(submitted[1].form, "selected_ids")) = 1
    /\ \E p \in CheckedOnPage : IdOf(p) = ""

(* C7: every synthesized form that is submitted has exactly one             *)
(* csrfmiddlewaretoken field, whose value is that of the page's token field. *)
C7_OneTokenCopied ==
    \A i \in 1..Len(submitted) :
        /\ Cardinality(FieldsNamed(submitted[i].form, "csrfmiddlewaretoken")) = 1
        /\ \A j \in FieldsNamed(submitted[i].form, "csrfmiddlewaretoken") :
               /\ submitted[i].form.fields[j].value = csrfToken
               /\ csrfToken \in Tokens

(* a stock adjustment submitted from a page whose token is tokB *)
C7_Witness ==
    /\ submitted # <<>>
    /\ submitted[1].key = "adjustStock"
    /\ csrfToken = "tokB"

(* C8: a batch-delete form is submitted only by the confirmation of the     *)
(* dialog a deleteSelected dispatch opened, for the ids of that dialog; a   *)
(* cancelled or dismissed dialog builds no form and leaves the selection    *)
(* as it was.                                                               *)
C8_DeleteOnlyAfterConfirm ==
    /\ [](\A i \in 1..Len(submitted) :
             submitted[i].form.action = pathname \o "batch-delete/" =>
                 /\ last.op = "deleteConfirmed"
                 /\ ~swal.open)
    /\ [][/\ (\E i \in 1..Len(submitted') :
                 /\ i > Len(submitted)
                 /\ submitted'[i].form.action = pathname \o "batch-delete/")
             => /\ swal.open
                /\ swal.key = "deleteSelected"
                /\ \A i \in 1..Len(submitted') :
                       submitted'[i].form.fields
                         = CsrfInput(csrfToken) \o IdInputs(swal.ids)
          /\ (swal.open /\ last'.op = "deleteDismissed")
             => /\ submitted' = submitted
                /\ last'.created = 0
                /\ page' = "loaded"
                /\ selectRow' = selectRow
                /\ selectAll' = selectAll]_vars

(* a confirmed delete that submitted its form *)
C8_Witness ==
    /\ last.op = "deleteConfirmed"
    /\ Len(submitted) = 1
    /\ submitted[1].form.action = pathname \o "batch-delete/"

(* C9: a submitted price-adjustment form has exactly one adjustment_type,   *)
(* one adjustment_value and one adjustment_field field, equal to the values *)
(* the dialog held when Confirm was clicked, plus one selected_ids field    *)
(* per selected id; a stock-adjustment form has the same with               *)
(* adjustment_notes in place of adjustment_field.                           *)
HasOne(form, name, value) ==
    /\ Cardinality(FieldsNamed(form, name)) = 1
    /\ \A j \in FieldsNamed(form, name) : form.fields[j].value = value

C9_AdjustmentFormFields ==
    \A i \in 1..Len(submitted) :
        LET form == submitted[i].form IN
        /\ form.action = pathname \o "batch-adjust-price/" =>
              /\ HasOne(form, "adjustment_type", last.type)
              /\ HasOne(form, "adjustment_value", last.value)
              /\ HasOne(form, "adjustment_field", last.third)
              /\ FieldsNamed(form, "adjustment_notes") = {}
              /\ CarriesCheckedIds(form)
        /\ form.action = pathname \o "batch-adjust-stock/" =>
              /\ HasOne(form, "adjustment_type", last.type)
              /\ HasOne(form, "adjustment_value", last.value)
              /\ HasOne(form, "adjustment_notes", last.third)
              /\ FieldsNamed(form, "adjustment_field") = {}
              /\ CarriesCheckedIds(form)

(* C10: every form submitted for a dispatched action key uses POST and      *)
(* targets the current path followed by that key's own suffix.              *)
SuffixOf(key) ==
    CASE key = "exportSelected" -> "export/"
      [] key = "deleteSelected" -> "batch-delete/"
      [] key = "adjustPrice" -> "batch-adjust-price/"
      [] key = "adjustStock" -> "batch-adjust-stock/"
      [] OTHER -> "<none>"

C10_FormsTargetOwnSuffix ==
    \A i \in 1..Len(submitted) :
        /\ submitted[i].key \in ActionKeys
        /\ submitted[i].form.method = "POST"
        /\ submitted[i].form.action = pathname \o SuffixOf(submitted[i].key)

(* a price adjustment submitted to <path>batch-adjust-price/ *)
C10_Witness ==
    /\ submitted # <<>>
    /\ submitted[1].key = "adjustPrice"
    /\ submitted[1].form.action = "/product/batch-adjust-price/"

(* C11: a dispatch of an unrecognised action key, whatever the selection,   *)
(* builds no form, opens no dialog and shows no notification; the key is    *)
(* only logged.                                                             *)
C11_UnknownKeySilent ==
    (last.op = "handleBatchAction" /\ last.key \notin ActionKeys) =>
        /\ last.alerts = 0
        /\ last.warned
        /\ last.created = 0
        /\ submitted = <<>>
        /\ ~swal.open
        /\ ~priceModal.shown
        /\ ~stockModal.shown

(* C11, as the code decides it: an unrecognised key never builds a form or  *)
(* opens a dialog; with at least one selected id it is logged and nothing   *)
(* is shown, with none the selection warning is shown and nothing is logged *)
C11_UnknownKeyAfterSelectionCheck ==
    (last.op = "handleBatchAction" /\ last.key \notin ActionKeys) =>
        /\ last.created = 0
        /\ submitted = <<>>
        /\ page = "loaded"
        /\ ~swal.open
        /\ ~priceModal.shown
        /\ ~stockModal.shown
        /\ IF SelectedIds(selectRow, rowIds) # <<>>
           THEN last.alerts = 0 /\ last.warned
           ELSE last.alerts = 1 /\ ~last.warned

(* an unrecognised key dispatched with two selected ids *)
C11_Witness ==
    /\ last.op = "handleBatchAction"
    /\ last.key = "archive"
    /\ Len(SelectedIds(selectRow, rowIds)) = 2
    /\ last.warned

(* C12: in every state reached from page load by header and row toggles,    *)
(* each batch-action control is hidden exactly when no row checkbox of the  *)
(* page is checked, and a visible control's badge shows the number of       *)
(* checked row checkboxes of the page.                                      *)
C12_ControlFollowsSelection ==
    \A c \in Containers :
        /\ batchActions[c].hidden <=> (CheckedOnPage = {})
        /\ ~batchActions[c].hidden =>
               batchActions[c].count = Cardinality(CheckedOnPage)

(* one row checked in each of two tables, the controls show 2 *)
C12_Witness ==
    /\ last.op = "selectRowChange"
    /\ \A t \in Tables : Cardinality(CheckedRowsOf(t)) = 1
    /\ \A c \in Containers : ~batchActions[c].hidden /\ batchActions[c].count = 2

(* C13: the injected menu always has exportSelected and deleteSelected; it  *)
(* has adjustPrice iff the path contains /product/, adjustStock iff the     *)
(* path contains /inventory/ and not /product/; never both, and the         *)
(* adjustment entry sits between export and delete.                         *)
ProductPaths == {"/product/", "/inventory/product/"}
InventoryPaths == {"/inventory/", "/inventory/product/"}

C13_MenuFollowsPath ==
    \A c \in Containers :
        LET Has(key) == \E i \in 1..Len(menu[c]) : menu[c][i] = key IN
        /\ Has("exportSelected")
        /\ Has("deleteSelected")
        /\ Has("adjustPrice") <=> pathname \in ProductPaths
        /\ Has("adjustStock") <=> pathname \in InventoryPaths \ ProductPaths
        /\ ~(Has("adjustPrice") /\ Has("adjustStock"))
        /\ \A i \in 1..Len(menu[c]) :
               menu[c][i] \in {"adjustPrice", "adjustStock"} =>
                   /\ i > 1 /\ i < Len(menu[c])
                   /\ menu[c][i - 1] = "exportSelected"
                   /\ menu[c][i + 1] = "deleteSelected"

(* a path that contains both substrings gets the price entry only *)
C13_Witness ==
    /\ pathname = "/inventory/product/"
    /\ \A c \in Containers :
           /\ ~batchActions[c].hidden
           /\ menu[c] = <<"exportSelected", "adjustPrice", "deleteSelected">>

(* C14: running the augmentation step again, any number of times and in    *)
(* any selection state, leaves every table as the first run left it: a      *)
(* table the step augments has exactly one selection column, one header     *)
(* checkbox, one checkbox per body row and one change listener per          *)
(* checkbox; nothing is duplicated and no checkbox state is lost.           *)
C14_AugmentationIdempotent ==
    /\ [](\A t \in Tables :
             /\ dom[t].columns <= 1
             /\ dom[t].columns = (IF headRow[t] THEN 1 ELSE 0)
             /\ dom[t].headerBoxes = dom[t].columns
             /\ dom[t].headerListeners = dom[t].columns
             /\ \A r \in 1..RowsOf(t) :
                    /\ dom[t].rowBoxes[r] = dom[t].columns
                    /\ dom[t].rowListeners[r] = dom[t].columns)
    /\ [][last'.op = "setupBatchSelection" =>
              /\ dom' = dom
              /\ selectAll' = selectAll
              /\ selectRow' = selectRow
              /\ batchActions' = batchActions]_vars

(* the step has run again on a page where a table of two rows has one row   *)
(* checked                                                                  *)
C14_Witness ==
    /\ last.op = "setupBatchSelection"
    /\ \E t \in Tables :
           /\ RowsOf(t) = 2
           /\ Cardinality(CheckedRowsOf(t)) = 1
           /\ selectAll[t].indeterminate
           /\ dom[t].columns = 1
           /\ dom[t].rowBoxes = <<1, 1>>
           /\ dom[t].rowListeners = <<1, 1>>

(* C15: after the augmentation step every table, with or without a header  *)
(* row, has exactly one select-all checkbox and exactly one row checkbox in *)
(* each body row.                                                           *)
C15_EveryTableAugmented ==
    \A t \in Tables :
        /\ dom[t].headerBoxes = 1
        /\ Len(selectRow[t]) = RowsOf(t)
        /\ \A r \in 1..RowsOf(t) : dom[t].rowBoxes[r] = 1

C17_OneFormPerClick ==
    /\ Len(submitted) <= 1
    /\ last.op \in {"confirmAdjustPrice", "confirmAdjustStock"} => last.created <= 1

(* C18: a toggle of the header checkbox or of a row checkbox of one table   *)
(* leaves the row checkboxes and the checked / indeterminate state of the   *)
(* header checkbox of every other table as they were.                       *)
C18_OtherTablesUntouched ==
    [][\A t \in Tables :
          (last'.op \in {"selectAllChange", "selectRowChange"} /\ last'.t = t) =>
              \A u \in Tables \ {t} :
                  /\ selectRow'[u] = selectRow[u]
                  /\ selectAll'[u] = selectAll[u]]_vars

(* the header of one table was unchecked while the other table stays fully  *)
(* checked                                                                  *)
C18_Witness ==
    /\ last.op = "selectAllChange"
    /\ RowsOf(last.t) = 1
    /\ ~selectAll[last.t].checked
    /\ \E u \in Tables \ {last.t} :
           /\ RowsOf(u) = 1
           /\ selectAll[u].checked
           /\ selectRow[u] = <<TRUE>>

(* C19: every password of at least 8 characters with a lowercase letter, an *)
(* uppercase letter, a digit and a non-alphanumeric character scores at     *)
(* least 80 and is labelled Strong; a score is always within 0..100.        *)
LowercaseLetters == {"a", "U+00E9"}
UppercaseLetters == {"B"}
DigitChars == {"7"}
NonAlphanumerics == {"!", "U+2028"}

C19_DiversePasswordIsStrong ==
    /\ meter.width \in 0..100
    /\ (/\ last.op = "passwordInput"
        /\ Len(password) >= 8
        /\ TestClass(password, LowercaseLetters)
        /\ TestClass(password, UppercaseLetters)
        /\ TestClass(password, DigitChars)
        /\ TestClass(password, NonAlphanumerics))
       => (meter.width >= 80 /\ meter.text = "Strong")

(* C20: after any sequence of input events on a password field its strength *)
(* meter is hidden exactly when the field's value is empty; it is hidden at *)
(* page load.                                                               *)
C20_MeterHiddenIffEmpty ==
    /\ last.op = "passwordInput" => (meter.hidden <=> (password = <<>>))
    /\ last.op = "load" => meter.hidden

(* the field was filled and then cleared: the meter is hidden again, its    *)
(* bar still at the last score                                              *)
C20_Witness ==
    /\ last.op = "passwordInput"
    /\ password = <<>>
    /\ meter.hidden
    /\ meter.text = "Strong"

(* C22: every form submitted from the price or the stock dialog carries     *)
(* exactly the ids that were selected when that dialog was most recently    *)
(* opened; ids captured by an earlier, cancelled opening are never          *)
(* submitted.                                                               *)
IsIdField(f) == f.name = "selected_ids"
LatestIds(listeners) == listeners[Len(listeners)].ids

C22_FormsCarryLatestIds ==
    \A i \in 1..Len(submitted) :
        LET form == submitted[i].form IN
        /\ form.action = pathname \o "batch-adjust-price/" =>
              SelectSeq(form.fields, IsIdField) = IdInputs(LatestIds(priceListeners))
        /\ form.action = pathname \o "batch-adjust-stock/" =>
              SelectSeq(form.fields, IsIdField) = IdInputs(LatestIds(stockListeners))

(* C23: whenever a recognised action is dispatched while the batch-action   *)
(* control is visible (badge above 0), the dispatch shows no                *)
(* empty-selection warning and the number of ids handed to the action's     *)
(* handler equals the count on the badge.                                   *)
C23_VisibleControlDispatches ==
    \A c \in Containers :
        (/\ last.op = "handleBatchAction"
         /\ last.key \in ActionKeys
         /\ ~batchActions[c].hidden
         /\ batchActions[c].count > 0)
        => /\ last.alerts = 0
           /\ Len(SelectedIds(selectRow, rowIds)) = batchActions[c].count

(* C28: the strength meter and the submit-time policy agree: every          *)
(* password the meter labels Strong (score 80 or more) passes the password  *)
(* policy check.                                                            *)
C28_StrongIsAccepted ==
    (/\ last.op = "passwordInput"
     /\ ~meter.hidden
     /\ meter.text = "Strong")
    => ValidatePassword(password)

(* C21: a native submit of the page form is prevented if and only if one    *)
(* of its required fields fails field validation or its password field      *)
(* holds a non-empty value that fails the password policy.                  *)
FailsPolicy(form, pwValue) ==
    form.pw.present /\ pwValue # <<>> /\ ~ValidatePassword(pwValue)

C21_PreventedIffInvalid ==
    last.op = "submit" =>
        (last.prevented <=>
            (~RequiredAllValid(pageForm, password) \/ FailsPolicy(pageForm, password)))

(* C27: a native submit of a form whose password field holds a non-empty    *)
(* value that fails the password policy is blocked, whether the visibility  *)
(* toggle currently shows or hides the password.                            *)
C27_BadPasswordBlocked ==
    (/\ last.op = "submit"
     /\ pageForm.pw.present
     /\ password # <<>>
     /\ ~ValidatePassword(password))
    => /\ last.prevented
       /\ requests = <<>>

(* C24: whenever a native submit of the form is blocked by validation, at   *)
(* least one field of the form is marked is-invalid and has an error        *)
(* message right after it.                                                  *)
MarkedFields(form) ==
    {form.fields[i].name : i \in {k \in 1..Len(form.fields) :
                                     /\ form.fields[k].invalid
                                     /\ form.fields[k].message # ""}}
    \cup (IF form.pw.present /\ form.pw.invalid /\ form.pw.message # ""
          THEN {form.pw.name} ELSE {})

C24_BlockedSubmitMarksField ==
    (last.op = "submit" /\ last.prevented)
    => MarkedFields(pageForm) # {}

(* C25: for a sensitive submit button or link, the original operation       *)
(* (submitting the form to the target the button designates, navigating to  *)
(* the link's href) has not happened when the click has only raised the     *)
(* confirmation, happens when the confirmation is confirmed, and nothing    *)
(* is submitted or navigated when it is cancelled.                          *)
DesignatedTarget(el) == IF el.formaction # "" THEN el.formaction ELSE FormAction

OriginalOperation(el) ==
    IF el.type = "submit" THEN [kind |-> "submit", target |-> DesignatedTarget(el)]
    ELSE [kind |-> "navigate", target |-> el.href]

Performed(r) == [kind |-> r.kind, target |-> r.target]

C25_OperationFollowsConfirmation ==
    \A el \in SensitiveElements :
        (el.type = "submit" \/ el.tagName = "A") /\ last.key = el.id =>
            /\ last.op = "sensitiveClick" => requests = <<>> /\ sensitive.open
            /\ last.op = "sensitiveResolved" /\ last.confirmed =>
                   /\ Len(requests) = 1
                   /\ Performed(requests[1]) = OriginalOperation(el)
            /\ last.op = "sensitiveResolved" /\ ~last.confirmed => requests = <<>>

(* C26: the page form is never submitted while one of its required fields   *)
(* fails validation, neither by a native submit nor by the submit performed *)
(* after confirming the dialog of a sensitive submit button.                *)
C26_NoSubmitWithInvalidField ==
    \A i \in 1..Len(requests) :
        requests[i].kind = "submit" => RequiredAllValid(pageForm, password)
====
